---------------------------- MODULE Spec2Model ----------------------------
(***************************************************************************)
(* A model of vscode/window.py: the text-coordinate value types (Position, *)
(* Range) and the remote UI bridge (Window.show dispatching to QuickPick,  *)
(* InputBox and Message, each of which encodes itself into a command       *)
(* expression, hands it to the session's run_code and decodes the reply).  *)
(*                                                                         *)
(* Python values are tagged records ([k |-> "str", s |-> ...]); a string   *)
(* is a sequence of one-character strings, so that quoting, escaping and   *)
(* case conversion are computed character by character; a dict is the      *)
(* ordered sequence of its (key, value) pairs, as in Python.               *)
(***************************************************************************)
EXTENDS Integers, Sequences, FiniteSets, TLC

VARIABLES
    op,      \* the coordinate operation applied last
    a,       \* its first Position operand (self)
    b,       \* its second Position operand (other)
    rng,     \* the Range constructed last
    out,     \* what the coordinate operation returned or raised
    phase,   \* where the current Window.show call is: idle, awaiting, returned, raised
    item,    \* the argument of the current Window.show call
    calls,   \* the run_code invocations of the current Window.show call
    reply,   \* what the session answered the current call with
    result   \* what the current Window.show call returned or raised

coordVars == <<op, a, b, rng, out>>
bridgeVars == <<phase, item, calls, reply, result>>
vars == <<op, a, b, rng, out, phase, item, calls, reply, result>>

\* Bounds of the model.
MaxCoord == 2
MaxStrLen == 1
MaxButtons == 1
MaxPicks == 2

\* How a call ends: with a value, or with an exception of some type.
Returned(v) == [k |-> "returned", v |-> v]
Raised(type) == [k |-> "raised", type |-> type]

(***************************************************************************)
(* Position                                                                *)
(***************************************************************************)
Position(line, character) == [line |-> line, character |-> character]

Positions == {Position(l, c) : l \in 0..MaxCoord, c \in 0..MaxCoord}

Position_eq(self, other) ==
    self.line = other.line /\ self.character = other.character

Position_lt(self, other) ==
    \/ self.line < other.line
    \/ (self.line = other.line /\ self.character < other.character)

Position_le(self, other) == Position_eq(self, other) \/ Position_lt(self, other)

Position_gt_NotLt(self, other) == ~Position_lt(self, other)

Position_gt(self, other) == ~Position_le(self, other)

Position_ge(self, other) == ~Position_lt(self, other)

Position_compare_to(self, other) ==
    IF Position_gt(self, other) THEN 1
    ELSE IF Position_lt(self, other) THEN -1
    ELSE 0

\* The methods a Position instance has; looking up any other name raises.
PositionMethods ==
    {"__init__", "__eq__", "__lt__", "__le__", "__gt__", "__ge__", "compare_to",
     "is_after", "is_after_or_equal", "is_before", "is_before_or_equal",
     "is_equal", "__repr__", "translate"}

\* self.<name>(other) for the integer-valued methods the predicates call.
Position_call(name, self, other) ==
    IF name \notin PositionMethods THEN Raised("AttributeError")
    ELSE IF name = "compare_to" THEN Returned(Position_compare_to(self, other))
    ELSE Raised("TypeError")

Position_is_after(self, other) ==
    LET r == Position_call("compareTo", self, other)
    IN  IF r.k = "raised" THEN r ELSE Returned(r.v = 1)

Position_is_after_or_equal(self, other) ==
    LET r == Position_call("compareTo", self, other)
    IN  IF r.k = "raised" THEN r ELSE Returned(r.v \in {0, 1})

Position_is_before(self, other) ==
    LET r == Position_call("compareTo", self, other)
    IN  IF r.k = "raised" THEN r ELSE Returned(r.v = -1)

Position_is_before_or_equal(self, other) ==
    LET r == Position_call("compareTo", self, other)
    IN  IF r.k = "raised" THEN r ELSE Returned(r.v \in {-1, 0})

Position_is_equal(self, other) ==
    LET r == Position_call("compareTo", self, other)
    IN  IF r.k = "raised" THEN r ELSE Returned(r.v = 0)

(***************************************************************************)
(* Range                                                                   *)
(***************************************************************************)
Range_init(start, end) == [start |-> start, end |-> end]

Range_is_empty(self) == Position_eq(self.start, self.end)

Range_in_single_line(self) == self.start.line = self.end.line

\* other is a Position: the chained comparison start <= other <= end.
Range_contains_position(self, other) ==
    Position_le(self.start, other) /\ Position_le(other, self.end)

\* other is a Range.
Range_contains_range(self, other) ==
    Position_le(self.start, other.start) /\ Position_ge(self.end, other.end)

(***************************************************************************)
(* The coordinate operations as steps, applied to two Positions a and b    *)
(***************************************************************************)
NoOut == [k |-> "none"]

\* Every comparison of a with b.
Compare ==
    /\ op' = "compare"
    /\ out' = [eq |-> Position_eq(a, b), lt |-> Position_lt(a, b),
               le |-> Position_le(a, b), gt |-> Position_gt(a, b),
               ge |-> Position_ge(a, b),
               compare_to |-> Position_compare_to(a, b)]
    /\ UNCHANGED <<a, b, rng, bridgeVars>>

\* Every named predicate of a with b.
Predicates ==
    /\ op' = "predicates"
    /\ out' = [is_after |-> Position_is_after(a, b),
               is_after_or_equal |-> Position_is_after_or_equal(a, b),
               is_before |-> Position_is_before(a, b),
               is_before_or_equal |-> Position_is_before_or_equal(a, b),
               is_equal |-> Position_is_equal(a, b)]
    /\ UNCHANGED <<a, b, rng, bridgeVars>>

\* Range(a, b), then its properties and the containment of its own ends.
NewRange ==
    LET r == Range_init(a, b)
    IN  /\ op' = "range"
        /\ rng' = r
        /\ out' = [is_empty |-> Range_is_empty(r),
                   in_single_line |-> Range_in_single_line(r),
                   contains_start |-> Range_contains_position(r, r.start),
                   contains_end |-> Range_contains_position(r, r.end)]
        /\ UNCHANGED <<a, b, bridgeVars>>

\* x in rng, for a Position x.
ContainsPosition(x) ==
    /\ op' = "contains_position"
    /\ out' = [x |-> x, contains |-> Range_contains_position(rng, x)]
    /\ UNCHANGED <<a, b, rng, bridgeVars>>

\* Range(x, b) in rng.
ContainsRange(x) ==
    /\ op' = "contains_range"
    /\ out' = [x |-> x, contains |-> Range_contains_range(rng, Range_init(x, b))]
    /\ UNCHANGED <<a, b, rng, bridgeVars>>

\* The item of a window on which no show call is in progress.
NoItem == [k |-> "no call"]

BridgeIdle ==
    /\ phase = "idle"
    /\ item = NoItem
    /\ calls = <<>>
    /\ reply = [k |-> "none"]
    /\ result = [k |-> "none"]

InitCoord ==
    /\ op = "init"
    /\ a \in Positions
    /\ b \in Positions
    /\ rng = Range_init(Position(0, 0), Position(0, 0))
    /\ out = NoOut
    /\ BridgeIdle

NextCoord ==
    \/ Compare
    \/ Predicates
    \/ NewRange
    \/ \E x \in Positions : ContainsPosition(x)
    \/ \E x \in Positions : ContainsRange(x)

SpecCoord == InitCoord /\ [][NextCoord]_vars

(***************************************************************************)
(* Python values                                                           *)
(***************************************************************************)
NoneVal == [k |-> "none"]
PyBool(x) == [k |-> "bool", b |-> x]
PyInt(x) == [k |-> "int", n |-> x]
PyStr(x) == [k |-> "str", s |-> x]
PyList(x) == [k |-> "list", l |-> x]
PyDict(x) == [k |-> "dict", d |-> x]

\* bool(v), as `if v:` and `v or w` evaluate it; an instance of a class
\* that defines neither __bool__ nor __len__ is true.
Truthy(v) ==
    CASE v.k = "none" -> FALSE
      [] v.k = "bool" -> v.b
      [] v.k = "int" -> v.n # 0
      [] v.k = "str" -> Len(v.s) > 0
      [] v.k = "list" -> Len(v.l) > 0
      [] v.k = "dict" -> Len(v.d) > 0
      [] OTHER -> TRUE

\* A dict is the sequence of its entries in insertion order, keys unique.
Entry(key, val) == [key |-> key, val |-> val]

DictHas(d, key) == \E i \in DOMAIN d : d[i].key = key

DictGet(d, key, default) ==
    IF DictHas(d, key)
    THEN d[CHOOSE i \in DOMAIN d : d[i].key = key].val
    ELSE default

\* d[key] = val: an existing key keeps its place, a new one goes last.
DictSet(d, key, val) ==
    IF DictHas(d, key)
    THEN [i \in DOMAIN d |-> IF d[i].key = key THEN Entry(key, val) ELSE d[i]]
    ELSE Append(d, Entry(key, val))

DictRemove(d, key) == SelectSeq(d, LAMBDA e : e.key # key)

RECURSIVE DictUpdate(_, _)
DictUpdate(d, other) ==
    IF other = <<>> THEN d
    ELSE DictUpdate(DictSet(d, Head(other).key, Head(other).val), Tail(other))

\* The entries of a dict regardless of their order.
DictItems(d) == {d[i] : i \in DOMAIN d}

(***************************************************************************)
(* Strings: case conversion and JSON encoding, character by character      *)
(***************************************************************************)
LowerCase == <<"a", "b", "c", "d", "e", "f", "g", "h", "i", "j", "k", "l", "m",
               "n", "o", "p", "q", "r", "s", "t", "u", "v", "w", "x", "y", "z">>
UpperCase == <<"A", "B", "C", "D", "E", "F", "G", "H", "I", "J", "K", "L", "M",
               "N", "O", "P", "Q", "R", "S", "T", "U", "V", "W", "X", "Y", "Z">>

ToUpper(c) ==
    IF \E i \in DOMAIN LowerCase : LowerCase[i] = c
    THEN UpperCase[CHOOSE i \in DOMAIN LowerCase : LowerCase[i] = c]
    ELSE c

ToLower(c) ==
    IF \E i \in DOMAIN UpperCase : UpperCase[i] = c
    THEN LowerCase[CHOOSE i \in DOMAIN UpperCase : UpperCase[i] = c]
    ELSE c

\* str.capitalize(): the first character upper case, the rest lower case.
Capitalize(s) ==
    [i \in DOMAIN s |-> IF i = 1 THEN ToUpper(s[i]) ELSE ToLower(s[i])]

\* The text from its first "_" on, every part between "_" capitalized
\* (str.title() of a part made of letters) and the "_" dropped.
RECURSIVE TitleParts(_, _)
TitleParts(text, partStart) ==
    IF text = <<>> THEN <<>>
    ELSE IF Head(text) = "_" THEN TitleParts(Tail(text), TRUE)
    ELSE <<IF partStart THEN ToUpper(Head(text)) ELSE ToLower(Head(text))>>
         \o TitleParts(Tail(text), FALSE)

\* The index of the first "_" of text, or Len(text) + 1.
RECURSIVE FirstUnderscore(_, _)
FirstUnderscore(text, i) ==
    IF i > Len(text) \/ text[i] = "_" THEN i ELSE FirstUnderscore(text, i + 1)

\* vscode.utils.snake_case_to_camel_case: ignore_focus_out -> ignoreFocusOut.
\* The part before the first "_" is kept as it is.
snake_case_to_camel_case(text) ==
    LET u == FirstUnderscore(text, 1)
    IN  SubSeq(text, 1, u - 1) \o TitleParts(SubSeq(text, u, Len(text)), FALSE)

\* json.dumps of a str: quoted, with " and \ escaped by a backslash.
RECURSIVE JsonEscape(_)
JsonEscape(s) ==
    IF s = <<>> THEN <<>>
    ELSE (IF Head(s) \in {"\"", "\\"} THEN <<"\\", Head(s)>> ELSE <<Head(s)>>)
         \o JsonEscape(Tail(s))

JsonString(s) == <<"\"">> \o JsonEscape(s) \o <<"\"">>

\* json.dumps(v) with its default separators ", " and ": ".
RECURSIVE JsonDumps(_)
RECURSIVE JsonElements(_)
RECURSIVE JsonMembers(_)
JsonDumps(v) ==
    CASE v.k = "none" -> <<"null">>
      [] v.k = "bool" -> IF v.b THEN <<"true">> ELSE <<"false">>
      [] v.k = "int" -> <<ToString(v.n)>>
      [] v.k = "str" -> JsonString(v.s)
      [] v.k = "list" -> <<"[">> \o JsonElements(v.l) \o <<"]">>
      [] v.k = "dict" -> <<"{">> \o JsonMembers(v.d) \o <<"}">>

JsonElements(l) ==
    IF l = <<>> THEN <<>>
    ELSE JsonDumps(Head(l))
         \o (IF Tail(l) = <<>> THEN <<>> ELSE <<",", " ">> \o JsonElements(Tail(l)))

JsonMembers(d) ==
    IF d = <<>> THEN <<>>
    ELSE JsonString(Head(d).key) \o <<":", " ">> \o JsonDumps(Head(d).val)
         \o (IF Tail(d) = <<>> THEN <<>> ELSE <<",", " ">> \o JsonMembers(Tail(d)))

(***************************************************************************)
(* Attribute names, dict keys and the severity tags, as strings            *)
(***************************************************************************)
N_label == <<"l", "a", "b", "e", "l">>
N_always_show == <<"a", "l", "w", "a", "y", "s", "_", "s", "h", "o", "w">>
N_alwaysShow == <<"a", "l", "w", "a", "y", "s", "S", "h", "o", "w">>
N_detail == <<"d", "e", "t", "a", "i", "l">>
N_description == <<"d", "e", "s", "c", "r", "i", "p", "t", "i", "o", "n">>
N_picked == <<"p", "i", "c", "k", "e", "d">>
N_my_extra == <<"m", "y", "_", "e", "x", "t", "r", "a">>
N_foo == <<"f", "o", "o">>
N_title == <<"t", "i", "t", "l", "e">>
N_can_pick_many == <<"c", "a", "n", "_", "p", "i", "c", "k", "_", "m", "a", "n", "y">>
N_ignore_focus_out == <<"i", "g", "n", "o", "r", "e", "_", "f", "o", "c", "u", "s", "_", "o", "u", "t">>
N_match_on_description == <<"m", "a", "t", "c", "h", "_", "o", "n", "_", "d", "e", "s", "c", "r", "i", "p", "t", "i", "o", "n">>
N_place_holder == <<"p", "l", "a", "c", "e", "_", "h", "o", "l", "d", "e", "r">>
N_match_on_detail == <<"m", "a", "t", "c", "h", "_", "o", "n", "_", "d", "e", "t", "a", "i", "l">>
N_password == <<"p", "a", "s", "s", "w", "o", "r", "d">>
N_ignoreFocusOut == <<"i", "g", "n", "o", "r", "e", "F", "o", "c", "u", "s", "O", "u", "t">>
N_prompt == <<"p", "r", "o", "m", "p", "t">>
N_placeHolder == <<"p", "l", "a", "c", "e", "H", "o", "l", "d", "e", "r">>
N_value == <<"v", "a", "l", "u", "e">>
N_information == <<"i", "n", "f", "o", "r", "m", "a", "t", "i", "o", "n">>
N_warning == <<"w", "a", "r", "n", "i", "n", "g">>
N_error == <<"e", "r", "r", "o", "r">>

(***************************************************************************)
(* QuickPickItem, QuickPickOptions                                         *)
(***************************************************************************)
Object(class, attrs) == [k |-> class, attrs |-> attrs]

\* __init__: always_show is `always_show or kwargs.pop("alwaysShow", None)`,
\* so the pop happens only when always_show is false; then the remaining
\* keyword arguments are added to __dict__.
QuickPickItem_init(label, always_show, description, detail, picked, kwargs) ==
    LET shown == IF Truthy(always_show) THEN always_show
                 ELSE DictGet(kwargs, N_alwaysShow, NoneVal)
        rest == IF Truthy(always_show) THEN kwargs
                ELSE DictRemove(kwargs, N_alwaysShow)
        own == <<Entry(N_label, label), Entry(N_always_show, shown),
                 Entry(N_detail, detail), Entry(N_description, description),
                 Entry(N_picked, picked)>>
    IN  Object("QuickPickItem", DictUpdate(own, rest))

QuickPickItemParameters ==
    {N_label, N_always_show, N_description, N_detail, N_picked}

\* QuickPickItem(**d): the keys that name a parameter are bound to it, the
\* others are collected in kwargs; label has no default.
QuickPickItem_from_kwargs(d) ==
    IF ~DictHas(d, N_label) THEN Raised("TypeError")
    ELSE Returned(QuickPickItem_init(
             DictGet(d, N_label, NoneVal), DictGet(d, N_always_show, NoneVal),
             DictGet(d, N_description, NoneVal), DictGet(d, N_detail, NoneVal),
             DictGet(d, N_picked, NoneVal),
             SelectSeq(d, LAMBDA e : e.key \notin QuickPickItemParameters)))

\* {snake_case_to_camel_case(k): v for k, v in self.__dict__.items()}
RECURSIVE CamelKeys(_, _)
CamelKeys(attrs, acc) ==
    IF attrs = <<>> THEN acc
    ELSE CamelKeys(Tail(attrs),
                   DictSet(acc, snake_case_to_camel_case(Head(attrs).key),
                           Head(attrs).val))

to_dict(self) == CamelKeys(self.attrs, <<>>)

QuickPickOptions_init(title, can_pick_many, ignore_focus_out, match_on_description, place_holder, match_on_detail) ==
    Object("QuickPickOptions",
           <<Entry(N_title, title), Entry(N_can_pick_many, can_pick_many),
             Entry(N_ignore_focus_out, ignore_focus_out),
             Entry(N_match_on_description, match_on_description),
             Entry(N_place_holder, place_holder),
             Entry(N_match_on_detail, match_on_detail)>>)

(***************************************************************************)
(* The session: run_code(code, wait_for_response)                          *)
(***************************************************************************)
\* The value of wait_for_response when the caller does not pass it.
run_code_wait_default == TRUE

\* A show cycle up to its await: the run_code call it makes.
Call(code, wait) == [k |-> "call", code |-> code, wait |-> wait]

(***************************************************************************)
(* QuickPick                                                               *)
(***************************************************************************)
\* A str item becomes QuickPickItem(i), any other item is kept.
QuickPick_init(items, options) ==
    [k |-> "QuickPick",
     items |-> [i \in DOMAIN items |->
                   IF items[i].k = "str"
                   THEN QuickPickItem_init(items[i], NoneVal, NoneVal, NoneVal,
                                           NoneVal, <<>>)
                   ELSE items[i]],
     options |-> options]

QuickPick_show_call(self) ==
    LET items == PyList([i \in DOMAIN self.items |-> PyDict(to_dict(self.items[i]))])
        options == IF Truthy(self.options)
                   THEN <<",">> \o JsonDumps(PyDict(to_dict(self.options)))
                   ELSE <<>>
    IN  Call(<<"vscode.window.showQuickPick", "(">> \o JsonDumps(items) \o options
             \o <<")">>,
             run_code_wait_default)

\* After the await: `if chosen:` then a dict gives one item, anything else
\* is iterated; otherwise the method falls off its end and returns None.
QuickPick_show_decode(chosen) ==
    IF ~Truthy(chosen) THEN Returned(NoneVal)
    ELSE IF chosen.k = "dict" THEN QuickPickItem_from_kwargs(chosen.d)
    ELSE IF chosen.k # "list" THEN Raised("TypeError")
    ELSE IF \E i \in DOMAIN chosen.l :
                \/ chosen.l[i].k # "dict"
                \/ QuickPickItem_from_kwargs(chosen.l[i].d).k = "raised"
         THEN Raised("TypeError")
         ELSE Returned(PyList([i \in DOMAIN chosen.l |->
                                  QuickPickItem_from_kwargs(chosen.l[i].d).v]))

(***************************************************************************)
(* InputBox                                                                *)
(***************************************************************************)
InputBox_init(title, password, ignore_focus_out, prompt, place_holder, value) ==
    [k |-> "InputBox", title |-> title, password |-> password,
     ignore_focus_out |-> ignore_focus_out, prompt |-> prompt,
     place_holder |-> place_holder, value |-> value]

InputBox_show_call(self) ==
    LET options_dict ==
            <<Entry(N_title, self.title), Entry(N_password, self.password),
              Entry(N_ignoreFocusOut, self.ignore_focus_out),
              Entry(N_prompt, self.prompt),
              Entry(N_placeHolder, self.place_holder),
              Entry(N_value, self.value)>>
    IN  Call(<<"vscode.window.showInputBox", "(">>
             \o JsonDumps(PyDict(options_dict)) \o <<")">>,
             run_code_wait_default)

(***************************************************************************)
(* Message and its severity variants                                       *)
(***************************************************************************)
MessageClasses == {"Message", "InfoMessage", "WarningMessage", "ErrorMessage"}

\* The class attribute `type`; the base Message defines none.
MessageType ==
    [InfoMessage |-> N_information, WarningMessage |-> N_warning,
     ErrorMessage |-> N_error]

Message_init(class, content, items) ==
    [k |-> class, content |-> content, items |-> items]

\* "".join(f', "{i}"' for i in self.items)
RECURSIVE QuotedItems(_)
QuotedItems(items) ==
    IF items = <<>> THEN <<>>
    ELSE <<",", " ", "\"">> \o Head(items).s \o <<"\"">> \o QuotedItems(Tail(items))

Message_show_call_AlwaysWait(self) ==
    IF self.k \notin DOMAIN MessageType THEN Raised("AttributeError")
    ELSE Call(<<"vscode.window.show">> \o Capitalize(MessageType[self.k])
              \o <<"Message", "(", "\"">> \o self.content \o <<"\"">>
              \o (IF Truthy(self.items) THEN QuotedItems(self.items.l) ELSE <<>>)
              \o <<")">>,
              run_code_wait_default)

Message_show_call(self) ==
    IF self.k \notin DOMAIN MessageType THEN Raised("AttributeError")
    ELSE LET base == <<"vscode.window.show">> \o Capitalize(MessageType[self.k])
                     \o <<"Message", "(", "\"">> \o self.content \o <<"\"">>
         IN  IF Truthy(self.items)
             THEN Call(base \o QuotedItems(self.items.l) \o <<")">>,
                       run_code_wait_default)
             ELSE Call(base \o <<")">>, FALSE)

(***************************************************************************)
(* Window                                                                  *)
(***************************************************************************)
\* The classes that derive from Showable.
ShowableClasses ==
    {"QuickPick", "InputBox", "Message", "InfoMessage", "WarningMessage",
     "ErrorMessage"}

IsShowable(x) == x.k \in ShowableClasses

\* item._show(ws) up to its await: the run_code call, or what it raises
\* before making one.
Show_call(x) ==
    CASE x.k = "QuickPick" -> QuickPick_show_call(x)
      [] x.k = "InputBox" -> InputBox_show_call(x)
      [] x.k \in MessageClasses -> Message_show_call(x)
      [] OTHER -> Raised("AttributeError")

\* item._show(ws) from the value run_code delivered to its return.
Show_return(x, raw) ==
    IF x.k = "QuickPick" THEN QuickPick_show_decode(raw) ELSE Returned(raw)

Window_show_Unchecked(x) == Show_call(x)

Window_show(x) ==
    IF ~IsShowable(x) THEN Raised("ValueError") ELSE Show_call(x)

(***************************************************************************)
(* The arguments Window.show is called with                                *)
(***************************************************************************)
Chars == {"a", "\"", "\\"}

SeqsUpTo(S, n) == UNION {[1..m -> S] : m \in 0..n}

Strings == SeqsUpTo(Chars, MaxStrLen)

Extra(key, val) == <<Entry(key, val)>>

\* What a QuickPick is built from: plain strings and QuickPickItems.
ItemInputs ==
    {PyStr(<<"b">>)}
    \cup {QuickPickItem_init(PyStr(<<"a">>), shown, NoneVal, NoneVal, NoneVal, <<>>) :
            shown \in {NoneVal, PyBool(TRUE), PyBool(FALSE)}}
    \cup {QuickPickItem_init(PyStr(<<"a">>), NoneVal, NoneVal, NoneVal, NoneVal, kw) :
            kw \in {Extra(N_alwaysShow, PyBool(TRUE)), Extra(N_alwaysShow, PyBool(FALSE)),
                    Extra(N_my_extra, PyInt(1)), Extra(N_foo, PyInt(1))}}
    \cup {QuickPickItem_init(PyStr(<<"a">>), PyBool(TRUE), NoneVal, NoneVal, NoneVal,
                             Extra(N_alwaysShow, PyBool(FALSE))),
          QuickPickItem_init(PyStr(<<"b">>), NoneVal, PyStr(<<"a">>), NoneVal,
                             PyBool(TRUE), <<>>)}

OptionInputs ==
    {NoneVal,
     QuickPickOptions_init(NoneVal, PyBool(TRUE), NoneVal, NoneVal, NoneVal, NoneVal)}

QuickPickInputs ==
    {QuickPick_init(items, options) :
        items \in SeqsUpTo(ItemInputs, MaxPicks), options \in OptionInputs}

InputBoxInputs ==
    {InputBox_init(title, password, NoneVal, NoneVal, NoneVal, value) :
        title \in {NoneVal, PyStr(<<"a">>)}, password \in {NoneVal, PyBool(TRUE)},
        value \in {NoneVal, PyStr(<<"\"">>)}}

MessageInputs ==
    {Message_init(class, content, items) :
        class \in MessageClasses, content \in Strings,
        items \in {NoneVal}
                  \cup {PyList(l) : l \in SeqsUpTo({PyStr(t) : t \in Strings}, MaxButtons)}}

\* Values of classes that do not derive from Showable.
OtherInputs ==
    {PyInt(42), PyStr(<<"a">>), NoneVal,
     QuickPickItem_init(PyStr(<<"a">>), NoneVal, NoneVal, NoneVal, NoneVal, <<>>)}

ShowInputs == QuickPickInputs \cup InputBoxInputs \cup MessageInputs \cup OtherInputs

(***************************************************************************)
(* What the session delivers                                               *)
(***************************************************************************)
\* The elements of s at the indices in S, in order.
RECURSIVE Pick(_, _, _)
Pick(s, S, i) ==
    IF i > Len(s) THEN <<>>
    ELSE (IF i \in S THEN <<s[i]>> ELSE <<>>) \o Pick(s, S, i + 1)

\* The raw values the host can answer a request with: nothing when the call
\* does not wait; for a quick pick nothing, one of the item objects it was
\* sent, or a list of them; for an input box nothing or the text entered;
\* for a message nothing or the label of one of its buttons.
Responses(x, call) ==
    IF ~call.wait THEN {NoneVal}
    ELSE CASE x.k = "QuickPick" ->
                LET sent == [i \in DOMAIN x.items |-> PyDict(to_dict(x.items[i]))]
                IN  {NoneVal} \cup {sent[i] : i \in DOMAIN sent}
                    \cup {PyList(Pick(sent, S, 1)) : S \in SUBSET DOMAIN sent}
           [] x.k = "InputBox" -> {NoneVal, PyStr(<<"a">>)}
           [] OTHER -> {NoneVal} \cup {x.items.l[i] : i \in DOMAIN x.items.l}

(***************************************************************************)
(* Window.show as steps: the call up to its await, then the session's      *)
(* answer or failure                                                       *)
(***************************************************************************)
NoReply == [k |-> "none"]
NoResult == [k |-> "none"]

WindowShow(x) ==
    LET r == Window_show(x)
    IN  /\ phase = "idle"
        /\ item' = x
        /\ reply' = NoReply
        /\ IF r.k = "raised"
           THEN /\ phase' = "raised"
                /\ calls' = <<>>
                /\ result' = r
           ELSE /\ phase' = "awaiting"
                /\ calls' = <<[code |-> r.code, wait |-> r.wait]>>
                /\ result' = NoResult
        /\ UNCHANGED coordVars

SessionDeliver ==
    /\ phase = "awaiting"
    /\ \E raw \in Responses(item, calls[Len(calls)]) :
          /\ reply' = [k |-> "delivered", v |-> raw]
          /\ result' = Show_return(item, raw)
          /\ phase' = IF Show_return(item, raw).k = "raised" THEN "raised"
                      ELSE "returned"
    /\ UNCHANGED <<item, calls, coordVars>>

\* run_code raises: the exception leaves _show and show as it is.
SessionFail ==
    /\ phase = "awaiting"
    /\ reply' = [k |-> "failed"]
    /\ result' = Raised("SessionError")
    /\ phase' = "raised"
    /\ UNCHANGED <<item, calls, coordVars>>

\* The call is over; the window is ready for the next one.
Finish ==
    /\ phase \in {"returned", "raised"}
    /\ phase' = "idle"
    /\ item' = NoItem
    /\ calls' = <<>>
    /\ result' = NoResult
    /\ reply' = NoReply
    /\ UNCHANGED coordVars

Init ==
    /\ op = "init"
    /\ a = Position(0, 0)
    /\ b = Position(0, 0)
    /\ rng = Range_init(Position(0, 0), Position(0, 0))
    /\ out = NoOut
    /\ BridgeIdle

Next ==
    \/ \E x \in ShowInputs : WindowShow(x)
    \/ SessionDeliver
    \/ SessionFail
    \/ Finish

Spec == Init /\ [][Next]_vars

(***************************************************************************)
(* Claims about the coordinate model                                       *)
(***************************************************************************)

\* C2: for all Positions a and b exactly one of a<b, a==b, a>b holds under
\* the line-first-then-character order, a<=b is (a<b or a==b), a>=b is
\* (a>b or a==b), and compare_to returns -1, 0, 1 respectively.
C2_TotalOrder ==
    op = "compare" =>
        /\ out.lt <=> (a.line < b.line \/ (a.line = b.line /\ a.character < b.character))
        /\ out.eq <=> (a = b)
        /\ out.gt <=> (a.line > b.line \/ (a.line = b.line /\ a.character > b.character))
        /\ Cardinality({x \in {"lt", "eq", "gt"} : out[x]}) = 1
        /\ out.le <=> (out.lt \/ out.eq)
        /\ out.ge <=> (out.gt \/ out.eq)
        /\ out.lt => out.compare_to = -1
        /\ out.eq => out.compare_to = 0
        /\ out.gt => out.compare_to = 1

C2_Witness ==
    /\ op = "compare"
    /\ a.line = b.line
    /\ a.character > b.character
    /\ out.gt
    /\ out.compare_to = 1

\* C3: every constructed Range has start <= end: Range(p, q) stores the
\* smaller of p and q as start and the larger as end.
C3_RangeNormalized ==
    op = "range" =>
        /\ Position_le(rng.start, rng.end)
        /\ rng.start = (IF Position_le(a, b) THEN a ELSE b)
        /\ rng.end = (IF Position_le(a, b) THEN b ELSE a)

\* C4: every Range r built from two Positions in any order contains r.start
\* and r.end, and r.is_empty is true exactly when r.start == r.end.
C4_RangeContainsEnds ==
    op = "range" =>
        /\ out.contains_start
        /\ out.contains_end
        /\ out.is_empty <=> (rng.start = rng.end)

\* C10: is_before, is_before_or_equal, is_after, is_after_or_equal and
\* is_equal return the booleans a<b, a<=b, a>b, a>=b and a==b, and never
\* end in an error.
C10_PredicatesAgree ==
    op = "predicates" =>
        /\ out.is_before = Returned(Position_lt(a, b))
        /\ out.is_before_or_equal = Returned(Position_le(a, b))
        /\ out.is_after = Returned(Position_gt(a, b))
        /\ out.is_after_or_equal = Returned(Position_ge(a, b))
        /\ out.is_equal = Returned(Position_eq(a, b))

(***************************************************************************)
(* Reading a command expression back: what the claims compare with         *)
(***************************************************************************)
ParseFailed == [ok |-> FALSE, args |-> <<>>]

\* The JSON string whose opening quote precedes code[i]: its decoded value
\* and the index after its closing quote. The escapes \" \\ \/ are decoded;
\* any other escape and a missing closing quote are errors.
RECURSIVE ParseJsonString(_, _, _)
ParseJsonString(code, i, acc) ==
    IF i > Len(code) THEN [ok |-> FALSE, s |-> <<>>, next |-> i]
    ELSE IF code[i] = "\"" THEN [ok |-> TRUE, s |-> acc, next |-> i + 1]
    ELSE IF code[i] = "\\"
         THEN IF i + 1 <= Len(code) /\ code[i + 1] \in {"\"", "\\", "/"}
              THEN ParseJsonString(code, i + 2, Append(acc, code[i + 1]))
              ELSE [ok |-> FALSE, s |-> <<>>, next |-> i]
    ELSE ParseJsonString(code, i + 1, Append(acc, code[i]))

\* The JSON strings of an argument list "...", "...") starting at code[i],
\* which must end the expression.
RECURSIVE ParseStringArgs(_, _, _)
ParseStringArgs(code, i, args) ==
    IF i > Len(code) \/ code[i] # "\"" THEN ParseFailed
    ELSE LET str == ParseJsonString(code, i + 1, <<>>)
             j == str.next
         IN  IF ~str.ok \/ j > Len(code) THEN ParseFailed
             ELSE IF code[j] = ")"
                  THEN IF j = Len(code)
                       THEN [ok |-> TRUE, args |-> Append(args, str.s)]
                       ELSE ParseFailed
             ELSE IF code[j] = ","
                  THEN ParseStringArgs(
                           code,
                           IF j + 1 <= Len(code) /\ code[j + 1] = " " THEN j + 2
                           ELSE j + 1,
                           Append(args, str.s))
             ELSE ParseFailed

\* The encodings joined by "," or ", ".
RECURSIVE JoinArgs(_, _)
JoinArgs(args, sep) ==
    IF args = <<>> THEN <<>>
    ELSE IF Len(args) = 1 THEN JsonDumps(args[1])
    ELSE JsonDumps(args[1]) \o sep \o JoinArgs(Tail(args), sep)

SeverityOperation ==
    [InfoMessage |-> <<"vscode.window.show">> \o <<"I", "n", "f", "o", "r", "m", "a", "t", "i", "o", "n">> \o <<"Message">>,
     WarningMessage |-> <<"vscode.window.show">> \o <<"W", "a", "r", "n", "i", "n", "g">> \o <<"Message">>,
     ErrorMessage |-> <<"vscode.window.show">> \o <<"E", "r", "r", "o", "r">> \o <<"Message">>]

Severities == {"InfoMessage", "WarningMessage", "ErrorMessage"}

HasButtons(x) == x.items.k = "list" /\ Len(x.items.l) >= 1

(***************************************************************************)
(* Claims about the remote UI bridge                                       *)
(***************************************************************************)

\* C1: Window.show of an argument that is not a Showable fails with the
\* error the capability check raises, and run_code is invoked zero times
\* in that call.
C1_NonShowableRejected ==
    (phase # "idle" /\ item.k \in {"int", "str", "none", "QuickPickItem"}) =>
        /\ phase = "raised"
        /\ result = Raised("ValueError")
        /\ calls = <<>>
        /\ reply = NoReply

C1_Witness ==
    /\ phase = "raised"
    /\ item = PyInt(42)
    /\ result = Raised("ValueError")
    /\ calls = <<>>

\* C5: the result of showing a QuickPick mirrors the shape of the reply: no
\* value gives no value, one item object gives one QuickPickItem, and a list
\* of item objects of any length gives a list of QuickPickItems of the same
\* length whose i-th element is built from the i-th object.
C5_ResultMirrorsReply ==
    (item.k = "QuickPick" /\ phase = "returned") =>
        /\ reply.v.k = "none" => result = Returned(NoneVal)
        /\ reply.v.k = "dict" =>
              /\ result.v.k = "QuickPickItem"
              /\ result = QuickPickItem_from_kwargs(reply.v.d)
        /\ reply.v.k = "list" =>
              /\ result.v.k = "list"
              /\ Len(result.v.l) = Len(reply.v.l)
              /\ \A i \in DOMAIN reply.v.l :
                    Returned(result.v.l[i]) = QuickPickItem_from_kwargs(reply.v.l[i].d)

\* C6: a severity Message without button labels invokes the session once
\* without waiting; with one or more labels it invokes the session once,
\* waiting, and returns exactly the value the session delivers.
C6_MessageWaitPolicy ==
    (item.k \in Severities /\ phase # "idle") =>
        /\ Len(calls) = 1
        /\ calls[1].wait = HasButtons(item)
        /\ (phase = "returned" /\ HasButtons(item)) => result = Returned(reply.v)

C6_Witness ==
    /\ phase = "returned"
    /\ item.k = "WarningMessage"
    /\ HasButtons(item)
    /\ calls[1].wait
    /\ reply.v = item.items.l[1]
    /\ result = Returned(item.items.l[1])

\* C7: every command expression handed to the session has the form
\* vscode.window.<operation>(<arg1>, <arg2>, ...) with each argument the
\* JSON encoding of its value; for a Message the first argument decodes to
\* exactly the content and the following ones to exactly the labels.
C7_ArgumentsAreJson ==
    \A c \in DOMAIN calls :
        LET code == calls[c].code
        IN  CASE item.k = "QuickPick" ->
                   LET items == PyList([i \in DOMAIN item.items |->
                                           PyDict(to_dict(item.items[i]))])
                       args == IF item.options.k = "none" THEN <<items>>
                               ELSE <<items, PyDict(to_dict(item.options))>>
                   IN  \E sep \in {<<",">>, <<",", " ">>} :
                          code = <<"vscode.window.showQuickPick", "(">>
                                 \o JoinArgs(args, sep) \o <<")">>
              [] item.k = "InputBox" ->
                   code = <<"vscode.window.showInputBox", "(">>
                          \o JsonDumps(PyDict(
                                 <<Entry(N_title, item.title),
                                   Entry(N_password, item.password),
                                   Entry(N_ignoreFocusOut, item.ignore_focus_out),
                                   Entry(N_prompt, item.prompt),
                                   Entry(N_placeHolder, item.place_holder),
                                   Entry(N_value, item.value)>>))
                          \o <<")">>
              [] OTHER ->
                   LET head == SeverityOperation[item.k]
                       parsed == ParseStringArgs(code, Len(head) + 2, <<>>)
                       labels == IF HasButtons(item)
                                 THEN [i \in DOMAIN item.items.l |-> item.items.l[i].s]
                                 ELSE <<>>
                   IN  /\ SubSeq(code, 1, Len(head) + 1) = head \o <<"(">>
                       /\ parsed.ok
                       /\ parsed.args = <<item.content>> \o labels

\* C8: a QuickPickItem x whose attribute names are snake_case is rebuilt
\* from the host echoing x.to_dict() with the same attribute names and
\* values.
C8_ItemRoundTrip ==
    (item.k = "QuickPick" /\ phase = "returned" /\ reply.v.k = "dict") =>
        \A i \in DOMAIN item.items :
            (/\ reply.v.d = to_dict(item.items[i])
             /\ \A e \in DictItems(item.items[i].attrs) :
                   \A n \in DOMAIN e.key : ToLower(e.key[n]) = e.key[n])
            => /\ result.v.k = "QuickPickItem"
               /\ DictItems(result.v.attrs) = DictItems(item.items[i].attrs)

\* C9: for every request that passes the capability check one Window.show
\* call invokes run_code exactly once and then returns a result or
\* propagates the session's failure; no other error arises.
C9_ExactlyOneSessionCall ==
    (phase # "idle" /\ item.k \in ShowableClasses) =>
        /\ Len(calls) = 1
        /\ phase = "raised" => (reply.k = "failed" /\ result = Raised("SessionError"))

=============================================================================
